---- MODULE Spec2Model ----
(***************************************************************************)
(* A model of bigearth-processor: the band splitter (model/tile.go,        *)
(* cmd/split), the metrics aggregator (cmd/metric), the restructuring      *)
(* sampler (cmd/sample) and the tile loading they share.                   *)
(*                                                                         *)
(* Strings that the code takes apart or builds (file names, paths, band    *)
(* tags) are sequences of one-character strings, so that formatting and    *)
(* trimming are computed, not assumed.  Error values are sequences of      *)
(* message layers, outermost first; << >> is Go's nil error.               *)
(***************************************************************************)
EXTENDS Integers, Sequences, FiniteSets, TLC

VARIABLES
    command,            \* the entry point that runs: split, metric or sample
    pc,                 \* position of the run: main, start, loop, done, failed, panic
    err,                \* the error processFolder returned (<< >> is nil)
    idx,                \* number of directory entries the loop has consumed
    count,              \* processFolder's local count
    last,               \* the entry handled by the latest step, with its inputs
    \* ---- cmd/split
    sample,             \* --sample, in tenths
    split,              \* --split
    labelData,          \* loadLabels' result: tile file name -> label
    bandMapping,        \* createBandMapping's result: band -> tag
    singleOnly,         \* --single-only (cmd/sample)
    files,              \* output files: path -> [src, band]
    dirs,               \* directories made by MkdirAll
    calls,              \* GDALTranslate calls of the latest SplitMultiBand
    \* ---- cmd/metric
    outputFrequency,    \* --output-frequency
    metadataOnly,       \* --metadata-only
    firstOnly,          \* --first-only
    bandCounts,
    labelCounts,
    labelSingleCounts,
    sizeCounts,
    pixelValueCounts,
    reports,            \* what outputMetrics printed, in order
    history             \* each counted tile and the tables after it (for the claims)

vars == <<command, pc, err, idx, count, last, sample, split, labelData, bandMapping,
          files, dirs, calls, outputFrequency, metadataOnly, firstOnly,
          bandCounts, labelCounts, labelSingleCounts, sizeCounts,
          pixelValueCounts, reports, history>>

splitVars == <<command, sample, split, labelData, bandMapping, singleOnly>>
metricVars == <<outputFrequency, metadataOnly, firstOnly, bandCounts,
                labelCounts, labelSingleCounts, sizeCounts,
                pixelValueCounts, reports, history>>

(***************************************************************************)
(* Bounds of the model.                                                    *)
(***************************************************************************)
MaxBands == 3          \* largest RasterCount of a multiband raster
MaxSplitTiles == 2     \* longest directory listing of the split command
MaxTiles == 3          \* longest directory listing of the metrics command
MaxFreq == 2           \* largest --output-frequency

(***************************************************************************)
(* Strings.                                                                *)
(***************************************************************************)
NoError == << >>
EmptyString == << >>
Digits == <<"0", "1", "2", "3", "4", "5", "6", "7", "8", "9">>

\* fmt.Sprintf("%d", n), n >= 0
RECURSIVE Itoa(_)
Itoa(n) ==
    IF n < 10 THEN <<Digits[n + 1]>>
    ELSE Itoa(n \div 10) \o <<Digits[(n % 10) + 1]>>

\* a faulty %02d: no zero padding
Sprintf02dNoPad(n) == Itoa(n)

\* fmt.Sprintf("%02d", n), n >= 0: padded with zeros to a width of two
Sprintf02d(n) == IF n < 10 THEN <<"0">> \o Itoa(n) ELSE Itoa(n)

HasSuffix(s, suffix) ==
    /\ Len(suffix) <= Len(s)
    /\ SubSeq(s, Len(s) - Len(suffix) + 1, Len(s)) = suffix

\* strings.TrimSuffix
TrimSuffix(s, suffix) ==
    IF HasSuffix(s, suffix) THEN SubSeq(s, 1, Len(s) - Len(suffix)) ELSE s

\* strings.Contains
Contains(s, sub) ==
    \E i \in 1..(Len(s) - Len(sub) + 1) : SubSeq(s, i, i + Len(sub) - 1) = sub

\* position of the last occurrence of character c in s, 0 when absent
LastIndex(s, c) ==
    LET at == {i \in 1..Len(s) : s[i] = c}
    IN  IF at = {} THEN 0 ELSE CHOOSE i \in at : \A j \in at : j <= i

\* path.Base, for a path that does not end in a slash
Base(p) == SubSeq(p, LastIndex(p, "/") + 1, Len(p))

\* path.Dir, for a cleaned path
Dir(p) ==
    IF LastIndex(p, "/") = 0 THEN <<".">>
    ELSE SubSeq(p, 1, LastIndex(p, "/") - 1)

\* path.Ext: the suffix from the last dot of the last element, "" without one
Ext(p) ==
    LET b == Base(p)
    IN  IF LastIndex(b, ".") = 0 THEN EmptyString
        ELSE SubSeq(b, LastIndex(b, "."), Len(b))

\* path.Join of two elements: empty elements are ignored.  The paths of the
\* model hold no ".", ".." or doubled slash, so path.Clean changes nothing.
Join(a, b) ==
    IF a = EmptyString THEN b
    ELSE IF b = EmptyString THEN a
    ELSE a \o <<"/">> \o b

(***************************************************************************)
(* Go maps with a zero default.                                            *)
(***************************************************************************)
EmptyMap == << >>
Get(m, k) == IF k \in DOMAIN m THEN m[k] ELSE 0
Put(m, k, v) == [x \in DOMAIN m \cup {k} |-> IF x = k THEN v ELSE m[x]]
Add(m, k, c) == Put(m, k, Get(m, k) + c)
Inc(m, k) == Add(m, k, 1)
\* map[string]string lookup: the zero value is ""
Lookup(m, k) == IF k \in DOMAIN m THEN m[k] ELSE EmptyString

(***************************************************************************)
(* The run's fixed names.                                                  *)
(***************************************************************************)
source == <<"s", "o", "u", "r", "c", "e">>
destination == <<"d", "e", "s", "t", "i", "n", "a", "t", "i", "o", "n">>
TiffExt == <<".", "t", "i", "f", "f">>
TifExt == <<".", "t", "i", "f">>
LabelL == <<"L">>
Tag02 == <<"0", "2">>
TagX == <<"x">>

\* the i-th entry of the source folder's listing: T1.tiff, T2.tif, T3.tiff, ...
TileFileName(i) ==
    <<"T">> \o Itoa(i) \o (IF i % 2 = 1 THEN TiffExt ELSE TifExt)

(***************************************************************************)
(* model/tile.go: the multiband tile and the band splitter.                *)
(***************************************************************************)
\* a pointer is << >> when nil and <<v>> when it points to v
Nil == << >>
Ptr(v) == <<v>>
Deref(ptr) == ptr[1]

\* NewTile
NewTile(baseFolder, tileName) ==
    [BaseFolder |-> baseFolder, TileName |-> tileName, Images |-> << >>,
     Metadata |-> Nil, MultiBand |-> FALSE]

\* NewTileMultiBand
NewTileMultiBand(imageName) ==
    [BaseFolder |-> Dir(imageName), TileName |-> Base(imageName),
     Images |-> << >>, Metadata |-> Nil, MultiBand |-> TRUE]

\* errors.Wrap / errors.Wrapf: the message in front of the cause
Wrap(cause, message) == <<message>> \o cause

\* a faulty band decision: a dropped band is written under its empty tag
BandTagKeepsDropped(mapping, band) ==
    IF band \in DOMAIN mapping
    THEN [skip |-> FALSE, tag |-> mapping[band]]
    ELSE [skip |-> FALSE, tag |-> Sprintf02d(band)]

\* SplitMultiBand's decision for one band: skip it, or the tag of its file
BandTag(mapping, band) ==
    IF band \in DOMAIN mapping /\ mapping[band] = EmptyString
    THEN [skip |-> TRUE, tag |-> EmptyString]
    ELSE IF band \notin DOMAIN mapping
    THEN [skip |-> FALSE, tag |-> Sprintf02d(band)]
    ELSE [skip |-> FALSE, tag |-> mapping[band]]

\* SplitMultiBand's output subfolder
SplitFolderName(outputFolder, tileName, label) ==
    IF label = EmptyString THEN Join(outputFolder, tileName)
    ELSE Join(outputFolder, label)

\* The band loop of SplitMultiBand from `band` on.  acc is the sequence of
\* GDALTranslate calls made so far: the file asked for, the band, and whether
\* the extraction worked (env.failBand is the band GDAL cannot extract, 0 for
\* none).  What GDALTranslate returns is closed and never looked at, so the
\* loop goes on to the next band after a failed extraction.
RECURSIVE SplitBands(_, _, _, _, _, _)
SplitBands(band, env, tileName, folderName, mapping, acc) ==
    IF band > env.rasterCount THEN acc
    ELSE LET d == BandTag(mapping, band)
             name == tileName \o <<"_", "B">> \o d.tag \o TiffExt
             call == [dst |-> Join(folderName, name), band |-> band,
                      ok |-> band # env.failBand]
         IN  IF d.skip
             THEN SplitBands(band + 1, env, tileName, folderName, mapping, acc)
             ELSE SplitBands(band + 1, env, tileName, folderName, mapping,
                             Append(acc, call))

\* Tile.SplitMultiBand: the error returned, the directories made and the
\* GDALTranslate calls, in order.  env.openOk is whether gdal.Open works.
SplitMultiBand(t, outputFolder, label, mapping, env) ==
    LET tileName == TrimSuffix(t.TileName, Ext(t.TileName))
        folderName == SplitFolderName(outputFolder, tileName, label)
    IN  IF ~env.openOk
        THEN [err |-> Wrap(<<"gdal.Open">>, "unable to load geotiff"),
              dirs |-> {outputFolder}, calls |-> << >>]
        ELSE [err |-> NoError,
              dirs |-> {outputFolder, folderName},
              calls |-> SplitBands(1, env, tileName, folderName, mapping, << >>)]

\* the files after the calls: a successful extraction creates or replaces dst
RECURSIVE WriteBands(_, _, _, _)
WriteBands(fs, src, cs, i) ==
    IF i > Len(cs) THEN fs
    ELSE WriteBands(IF cs[i].ok
                    THEN Put(fs, cs[i].dst, [src |-> src, band |-> cs[i].band])
                    ELSE fs,
                    src, cs, i + 1)

(***************************************************************************)
(* cmd/split: copy and processFolder.                                      *)
(***************************************************************************)
\* rand.Float64() is in [0, 1); draws and rates are in tenths
Draws == {0, 5, 9}
SampleRates == {0, 5, 10}
Tags == {EmptyString, Tag02, TagX}

\* What createBandMapping can return on bands 1..MaxBands: it fails unless
\* the drop list names a band, so a mapping drops at least one band.
BandMappings ==
    {m \in UNION {[S -> Tags] : S \in SUBSET (1..MaxBands)} :
        \E k \in DOMAIN m : m[k] = EmptyString}

\* loadLabels' results in the model: no label file, or T1.tiff labelled L
LabelDatas == {EmptyMap, TileFileName(1) :> LabelL}

\* What the environment does to one SplitMultiBand call
SplitEnvs ==
    {[openOk |-> FALSE, rasterCount |-> 0, failBand |-> 0, copyFail |-> ""]}
    \cup {[openOk |-> TRUE, rasterCount |-> n, failBand |-> f, copyFail |-> ""] :
            n \in {1, MaxBands}, f \in 0..MaxBands}
\* What the environment does to one copy call: the step that fails, if any
CopyEnvs ==
    {[openOk |-> TRUE, rasterCount |-> 0, failBand |-> 0, copyFail |-> c] :
        c \in {"", "open", "mkdir", "create", "copy"}}
NoEnv == [openOk |-> TRUE, rasterCount |-> 0, failBand |-> 0, copyFail |-> ""]

\* a file copied whole, or cut short by a failed io.Copy
WholeFile == 0
PartialFile == -1

\* copy: the error returned and the files and directories afterwards
Copy(sourceFile, destinationFile, env, fs, ds) ==
    LET destinationDir == Dir(destinationFile)
        made == ds \cup {destinationDir}
    IN  IF env.copyFail = "open"
        THEN [err |-> Wrap(<<"os.Open">>, "unable to open source file"),
              files |-> fs, dirs |-> ds]
        ELSE IF env.copyFail = "mkdir" /\ destinationDir \notin ds
        THEN [err |-> Wrap(<<"os.MkdirAll">>, "unable to make destination folder"),
              files |-> fs, dirs |-> ds]
        ELSE IF env.copyFail = "create"
        THEN [err |-> Wrap(<<"os.Create">>, "unable to create destination file"),
              files |-> fs, dirs |-> made]
        ELSE IF env.copyFail = "copy"
        THEN [err |-> Wrap(<<"io.Copy">>, "unable to copy file"),
              files |-> Put(fs, destinationFile,
                            [src |-> sourceFile, band |-> PartialFile]),
              dirs |-> made]
        ELSE [err |-> NoError,
              files |-> Put(fs, destinationFile,
                            [src |-> sourceFile, band |-> WholeFile]),
              dirs |-> made]

InitCommon ==
    /\ pc = "start"
    /\ err = NoError
    /\ idx = 0
    /\ count = 0
    /\ files = EmptyMap
    /\ dirs = {}
    /\ calls = << >>

InitSplitFlags ==
    /\ singleOnly = FALSE
    /\ sample = 0
    /\ split = FALSE
    /\ labelData = EmptyMap
    /\ bandMapping = EmptyMap

InitMetricTables ==
    /\ bandCounts = EmptyMap
    /\ labelCounts = EmptyMap
    /\ labelSingleCounts = EmptyMap
    /\ sizeCounts = EmptyMap
    /\ pixelValueCounts = EmptyMap
    /\ reports = << >>
    /\ history = << >>

NoSplitStep == [name |-> EmptyString, kind |-> "none", env |-> NoEnv]

\* the split command as processFolder is entered
InitSplit ==
    /\ command = "split"
    /\ singleOnly = FALSE
    /\ InitCommon
    /\ last = NoSplitStep
    /\ sample \in SampleRates
    /\ split \in BOOLEAN
    /\ labelData \in LabelDatas
    /\ bandMapping \in BandMappings
    /\ outputFrequency = 1
    /\ metadataOnly = FALSE
    /\ firstOnly = FALSE
    /\ InitMetricTables

\* processFolder, cmd/split: ioutil.ReadDir(inputFolder)
SplitReadDir ==
    /\ command = "split"
    /\ pc = "start"
    /\ \E ok \in BOOLEAN :
        IF ok
        THEN pc' = "loop" /\ err' = NoError
        ELSE /\ pc' = "failed"
             /\ err' = Wrap(<<"ioutil.ReadDir">>, "unable to read contents of")
    /\ UNCHANGED <<idx, count, last, files, dirs, calls, splitVars, metricVars>>

\* processFolder, cmd/split: one pass of the loop over tileFiles
SplitTile ==
    /\ command = "split"
    /\ pc = "loop"
    /\ idx < MaxSplitTiles
    /\ idx' = idx + 1
    /\ count' = count + 1
    /\ \E draw \in Draws, env \in (IF split THEN SplitEnvs ELSE CopyEnvs) :
        LET name == TileFileName(idx + 1)
            label == Lookup(labelData, name)
            tile == NewTileMultiBand(Join(source, name))
            r == SplitMultiBand(tile, destination, label, bandMapping, env)
            c == Copy(Join(source, name), Join(Join(destination, label), name),
                      env, files, dirs)
        IN  IF draw >= sample
            THEN /\ last' = [name |-> name, kind |-> "skipped", env |-> NoEnv]
                 /\ UNCHANGED <<pc, err, files, dirs, calls>>
            ELSE IF split
            THEN /\ last' = [name |-> name, kind |-> "split", env |-> env]
                 /\ calls' = r.calls
                 /\ dirs' = dirs \cup r.dirs
                 /\ files' = WriteBands(files, Join(source, name), r.calls, 1)
                 /\ err' = r.err
                 /\ pc' = IF r.err # NoError THEN "failed" ELSE "loop"
            ELSE /\ last' = [name |-> name, kind |-> "copy", env |-> env]
                 /\ calls' = << >>
                 /\ dirs' = c.dirs
                 /\ files' = c.files
                 /\ err' = c.err
                 /\ pc' = IF c.err # NoError THEN "failed" ELSE "loop"
    /\ UNCHANGED <<splitVars, metricVars>>

\* processFolder, cmd/split: the listing is exhausted
SplitFinish ==
    /\ command = "split"
    /\ pc = "loop"
    /\ pc' = "done"
    /\ UNCHANGED <<err, idx, count, last, files, dirs, calls, splitVars, metricVars>>

NextSplit == SplitReadDir \/ SplitTile \/ SplitFinish

SpecSplit == InitSplit /\ [][NextSplit]_vars

(***************************************************************************)
(* model/tile.go: loading a tile for the metrics command.                  *)
(*                                                                         *)
(* A capture is one entry of the source folder as the environment presents *)
(* it: isDir; readable (ioutil.ReadDir of a folder, gdal.Open of a file);  *)
(* files, the folder's listing in ReadDir's order, each with its name, how *)
(* reading it ends (load), the decoded raster (sizeX, sizeY, pix: the      *)
(* Gray16 buffer, two bytes a pixel) or the descriptor's labels; and       *)
(* splitEnv, what GDAL does inside loadMultiBandImage.  values are the     *)
(* pixel values the buffer stands for, for the claims to refer to.         *)
(***************************************************************************)
UpperCase == <<"A", "B", "C", "D", "E", "F", "G", "H", "I", "J", "K", "L", "M", "N", "O", "P", "Q", "R", "S", "T", "U", "V", "W", "X", "Y", "Z">>
LowerCase == <<"a", "b", "c", "d", "e", "f", "g", "h", "i", "j", "k", "l", "m", "n", "o", "p", "q", "r", "s", "t", "u", "v", "w", "x", "y", "z">>
IsDigit(c) == \E i \in 1..10 : Digits[i] = c
IsUpper(c) == \E i \in 1..26 : UpperCase[i] = c
IsLower(c) == \E i \in 1..26 : LowerCase[i] = c
ToLowerChar(c) ==
    IF IsUpper(c) THEN LowerCase[CHOOSE i \in 1..26 : UpperCase[i] = c] ELSE c
\* strings.ToLower
ToLower(s) == [i \in 1..Len(s) |-> ToLowerChar(s[i])]

\* bandRegex `_B[0-9][0-9a-zA-Z][.]` matches s at position i
BandRegexAt(s, i) ==
    /\ i + 4 <= Len(s)
    /\ s[i] = "_"
    /\ s[i + 1] = "B"
    /\ IsDigit(s[i + 2])
    /\ (IsDigit(s[i + 3]) \/ IsUpper(s[i + 3]) \/ IsLower(s[i + 3]))
    /\ s[i + 4] = "."

\* extractBand: the two characters of the leftmost match, lower-cased
ExtractBand(filename) ==
    LET at == {i \in 1..Len(filename) : BandRegexAt(filename, i)}
    IN  IF at = {} THEN EmptyString
        ELSE LET i == CHOOSE k \in at : \A j \in at : k <= j
             IN  ToLower(SubSeq(filename, i + 2, i + 3))

JsonExt == <<".", "j", "s", "o", "n">>

\* Tile.GetCompletePath
GetCompletePath(t) == Join(t.BaseFolder, t.TileName)

\* NewTileMetadata followed by TileMetadata.LoadMetadata, whose error the
\* callers drop: Labels stay nil when the file cannot be
\* read or parsed
NewLoadedMetadata(filename, f) ==
    Ptr([Filename |-> filename,
         Labels |-> IF f.load = "ok" THEN f.labels ELSE << >>])

\* Image.Load's pixel value: uint16(b0)<<8 | uint16(b1)
ComposePixel(b0, b1) == (b0 * 256 + b1) % 65536

\* Image.Load of file f at imagePath: the image, or the error, or the panic
\* of the type assertion on a raster that is not 16-bit grayscale
ImageLoad(imagePath, f) ==
    LET img == [Band |-> ExtractBand(imagePath), Filename |-> imagePath,
                SizeX |-> 0, SizeY |-> 0, Pixels |-> << >>]
    IN  IF f.load = "unreadable"
        THEN [img |-> img, panic |-> FALSE,
              err |-> Wrap(<<"ioutil.ReadFile">>, "unable to read raw image")]
        ELSE IF f.load = "undecodable"
        THEN [img |-> img, panic |-> FALSE,
              err |-> Wrap(<<"tiff.Decode">>, "unable to decode tiff image")]
        ELSE IF f.load = "notgray16"
        THEN [img |-> img, panic |-> TRUE, err |-> NoError]
        ELSE [img |-> [img EXCEPT
                        !.SizeX = f.sizeX,
                        !.SizeY = f.sizeY,
                        !.Pixels = [x \in 1..(f.sizeX * f.sizeY) |->
                                      ComposePixel(f.pix[2 * x - 1], f.pix[2 * x])]],
              panic |-> FALSE, err |-> NoError]

NoEffects == [dirs |-> {}, calls |-> << >>]

\* Tile.LoadMetadata: the first descriptor of the folder, if any
RECURSIVE LoadMetadataFrom(_, _, _)
LoadMetadataFrom(t, fs, i) ==
    IF i > Len(fs) THEN t
    ELSE IF Ext(fs[i].name) = JsonExt
    THEN [t EXCEPT !.Metadata =
            NewLoadedMetadata(Join(GetCompletePath(t), fs[i].name), fs[i])]
    ELSE LoadMetadataFrom(t, fs, i + 1)

LoadMetadata(t, c) ==
    IF ~(c.isDir /\ c.readable)
    THEN [tile |-> t, panic |-> FALSE, effects |-> NoEffects,
          err |-> Wrap(<<"ioutil.ReadDir">>, "unable to read contents of")]
    ELSE [tile |-> LoadMetadataFrom([t EXCEPT !.Images = << >>], c.files, 1),
          panic |-> FALSE, effects |-> NoEffects, err |-> NoError]

\* Tile.LoadFiles on a folder: the loop over the listing from file i on
RECURSIVE LoadFilesFrom(_, _, _)
LoadFilesFrom(t, fs, i) ==
    IF i > Len(fs)
    THEN [tile |-> t, panic |-> FALSE, effects |-> NoEffects, err |-> NoError]
    ELSE IF Ext(fs[i].name) = JsonExt
    THEN LoadFilesFrom(
            [t EXCEPT !.Metadata =
                NewLoadedMetadata(Join(GetCompletePath(t), fs[i].name), fs[i])],
            fs, i + 1)
    ELSE LET imagePath == Join(GetCompletePath(t), fs[i].name)
             r == ImageLoad(imagePath, fs[i])
         IN  IF r.panic
             THEN [tile |-> t, panic |-> TRUE, effects |-> NoEffects,
                   err |-> NoError]
             ELSE IF r.err # NoError
             THEN [tile |-> t, panic |-> FALSE, effects |-> NoEffects,
                   err |-> Wrap(r.err, "unable to load image from")]
             ELSE LoadFilesFrom([t EXCEPT !.Images = Append(@, r.img)],
                                fs, i + 1)

\* the folder loadMultiBandImage splits into
TestFolder == <<"C:\\data\\remote-sensing\\test1">>

\* Tile.loadMultiBandImage: opens the raster, then splits it into TestFolder
\* with an empty mapping, dropping SplitMultiBand's error
LoadMultiBandImage(t, c) ==
    IF ~c.readable
    THEN [tile |-> t, panic |-> FALSE, effects |-> NoEffects,
          err |-> Wrap(<<"gdal.Open">>, "unable to load geotiff")]
    ELSE LET r == SplitMultiBand(t, TestFolder, EmptyString, EmptyMap, c.splitEnv)
         IN  [tile |-> t, panic |-> FALSE,
              effects |-> [dirs |-> r.dirs, calls |-> r.calls],
              err |-> NoError]

\* Tile.LoadFiles
LoadFiles(t, c) ==
    IF t.MultiBand THEN LoadMultiBandImage(t, c)
    ELSE IF ~(c.isDir /\ c.readable)
    THEN [tile |-> t, panic |-> FALSE, effects |-> NoEffects,
          err |-> Wrap(<<"ioutil.ReadDir">>, "unable to read contents of")]
    ELSE LoadFilesFrom([t EXCEPT !.Images = << >>], c.files, 1)

(***************************************************************************)
(* cmd/metric: outputMetrics.                                              *)
(*                                                                         *)
(* The bucket slice pixelCounts is kept as its length and its non-zero     *)
(* entries.  Go ranges over a map in an order of its own choosing: order   *)
(* is the sequence of keys a range over pixelValueCounts visits.  Floats   *)
(* that are halves of integers are kept doubled (medianCount2,             *)
(* medianValue2; -2 is the initial -1.0).                                  *)
(***************************************************************************)
UpperLimitLow == 10000
UpperLimitHigh == 40000
RowWidth == 20
MaxPermKeys == 3       \* up to this many keys, every iteration order is tried

ToUint16(n) == n % 65536

RECURSIVE SortedSeq(_)
SortedSeq(S) ==
    IF S = {} THEN << >>
    ELSE LET m == CHOOSE x \in S : \A y \in S : x <= y
         IN  <<m>> \o SortedSeq(S \ {m})
Reverse(q) == [i \in 1..Len(q) |-> q[Len(q) + 1 - i]]

\* the orders in which a range may visit the keys S
Orders(S) ==
    IF Cardinality(S) <= MaxPermKeys
    THEN {f \in [1..Cardinality(S) -> S] :
            \A i, j \in 1..Cardinality(S) : f[i] = f[j] => i = j}
    ELSE {SortedSeq(S), Reverse(SortedSeq(S))}

\* the first loop of outputMetrics: the largest and smallest key
RECURSIVE MinMaxPV(_, _, _)
MinMaxPV(order, k, acc) ==
    IF k > Len(order) THEN acc
    ELSE MinMaxPV(order, k + 1,
            [maxPV |-> IF order[k] > acc.maxPV THEN order[k] ELSE acc.maxPV,
             minPV |-> IF order[k] < acc.minPV THEN order[k] ELSE acc.minPV])

\* a faulty length: the row after the one that holds maxPV + 1 is left out
PixelCountsLenNoSpare(maxPV) ==
    ToUint16(ToUint16(ToUint16(maxPV + 1) \div 20) * 20)

\* len(pixelCounts), computed in uint16
PixelCountsLen(maxPV) ==
    ToUint16(ToUint16(ToUint16(ToUint16(maxPV + 1) \div 20) + 1) * 20)

\* a faulty clip: values above the limit are left as they are
ClipPixelOff(pv, upperLimitPixel) == pv

\* the clip of a pixel value to the report's upper limit
ClipPixel(pv, upperLimitPixel) ==
    IF pv > upperLimitPixel THEN upperLimitPixel ELSE pv

\* pixelCounts[pv] += c
BucketAdd(pixelCounts, pv, c) == Add(pixelCounts, pv, c)

\* the second loop of outputMetrics, from the k-th key of order on.  An
\* index at or beyond len(pixelCounts) panics.
RECURSIVE Accumulate(_, _, _, _, _, _)
Accumulate(upperLimitPixel, counts, order, length, k, acc) ==
    IF k > Len(order) \/ acc.panic THEN acc
    ELSE LET c == counts[order[k]]
             pv == ClipPixel(order[k], upperLimitPixel)
         IN  IF pv >= length
             THEN [acc EXCEPT !.panic = TRUE]
             ELSE Accumulate(upperLimitPixel, counts, order, length, k + 1,
                    [pixelCounts |-> BucketAdd(acc.pixelCounts, pv, c),
                     totalPixelCount |-> acc.totalPixelCount + c,
                     totalPixelValue |-> acc.totalPixelValue + c * pv,
                     mostCommonPixelCount |->
                        IF acc.mostCommonPixelCount < c THEN c
                        ELSE acc.mostCommonPixelCount,
                     mostCommonPixelValue |->
                        IF acc.mostCommonPixelCount < c THEN pv
                        ELSE acc.mostCommonPixelValue,
                     panic |-> FALSE])

\* a faulty median test: a remainder of exactly 0 does not settle the median
MedianStepStrict(medianCount2, value) ==
    IF medianCount2 < 0 THEN 2 * value
    ELSE IF medianCount2 < 2 THEN 2 * value + 1
    ELSE -2

\* the median test at bucket `value`, medianCount already reduced by the
\* bucket: the value when it is <= 0, the value and a half when it is < 1,
\* and no median yet (-2) otherwise
MedianStep(medianCount2, value) ==
    IF medianCount2 <= 0 THEN 2 * value
    ELSE IF medianCount2 < 2 THEN 2 * value + 1
    ELSE -2

\* the inner loop over j of one printed row starting at bucket i; it breaks
\* once the median is set
RECURSIVE MedianRow(_, _, _, _)
MedianRow(pixelCounts, i, j, st) ==
    IF j >= RowWidth THEN st
    ELSE LET mc == st.medianCount2 - 2 * Get(pixelCounts, i + j)
             mv == MedianStep(mc, i + j)
         IN  IF mv >= 0
             THEN [medianCount2 |-> mc, medianValue2 |-> mv]
             ELSE MedianRow(pixelCounts, i, j + 1,
                            [medianCount2 |-> mc, medianValue2 |-> st.medianValue2])

\* the outer loop over the rows lo..hi-1, in order: a row runs its inner loop
\* only while medianValue < 0.  The rows are taken in two halves, the first
\* before the second, which keeps the evaluation shallow.
RECURSIVE MedianRows(_, _, _, _)
MedianRows(pixelCounts, lo, hi, st) ==
    IF hi <= lo \/ st.medianValue2 >= 0 THEN st
    ELSE IF hi - lo = 1 THEN MedianRow(pixelCounts, RowWidth * lo, 0, st)
    ELSE LET mid == (lo + hi) \div 2
         IN  MedianRows(pixelCounts, mid, hi,
                        MedianRows(pixelCounts, lo, mid, st))

\* outputMetrics: everything it prints.  The tables are printed line by
\* line in an order the claims do not depend on, and are kept as tables.
OutputMetrics(upperLimitPixel, bands, labels, labelsSingle, sizes, counts, order) ==
    LET mm == MinMaxPV(order, 1, [maxPV |-> 0, minPV |-> 65535])
        maxPV == IF mm.maxPV > upperLimitPixel THEN upperLimitPixel ELSE mm.maxPV
        length == PixelCountsLen(maxPV)
        acc == Accumulate(upperLimitPixel, counts, order, length, 1,
                    [pixelCounts |-> EmptyMap, totalPixelCount |-> 0,
                     totalPixelValue |-> 0, mostCommonPixelCount |-> 0,
                     mostCommonPixelValue |-> 0, panic |-> FALSE])
        med == MedianRows(acc.pixelCounts, 0, length \div RowWidth,
                    [medianCount2 |-> acc.totalPixelCount, medianValue2 |-> -2])
    IN  [upperLimitPixel |-> upperLimitPixel,
         length |-> length,
         pixelCounts |-> acc.pixelCounts,
         totalPixelCount |-> acc.totalPixelCount,
         totalPixelValue |-> acc.totalPixelValue,
         mostCommonPixelValue |-> acc.mostCommonPixelValue,
         mostCommonPixelCount |-> acc.mostCommonPixelCount,
         medianValue2 |-> IF acc.panic THEN -2 ELSE med.medianValue2,
         minPV |-> mm.minPV,
         maxPV |-> maxPV,
         bands |-> bands,
         sizes |-> sizes,
         labels |-> labels,
         labelsSingle |-> labelsSingle,
         panic |-> acc.panic]

(***************************************************************************)
(* cmd/metric: processFolder.                                              *)
(***************************************************************************)
\* the Gray16 buffer that holds the pixel values p, high byte first
BigEndian(p) ==
    [i \in 1..(2 * Len(p)) |->
        IF i % 2 = 1 THEN p[(i + 1) \div 2] \div 256 ELSE p[i \div 2] % 256]

ImageFile(name, load, pixels) ==
    [name |-> name, load |-> load, sizeX |-> Len(pixels), sizeY |-> 1,
     pix |-> BigEndian(pixels), values |-> pixels, labels |-> << >>]
DescriptorFile(load, labels) ==
    [name |-> <<"m", "e", "t", "a">> \o JsonExt, load |-> load, sizeX |-> 0,
     sizeY |-> 0, pix |-> << >>, values |-> << >>, labels |-> labels]
BandFileName(band) == <<"T", "_", "B">> \o band \o TifExt

Folder(readable, fs) ==
    [isDir |-> TRUE, readable |-> readable, files |-> fs, splitEnv |-> NoEnv]
RasterFile(readable, env) ==
    [isDir |-> FALSE, readable |-> readable, files |-> << >>, splitEnv |-> env]

Pixels0To19 == [i \in 1..20 |-> i - 1]

\* The captures of the model.  ReadDir lists a folder by name, so the band
\* files come before the descriptor.
Captures ==
    { Folder(FALSE, << >>),
      Folder(TRUE, << >>),
      Folder(TRUE, <<ImageFile(BandFileName(<<"0", "1">>), "ok", <<0, 1>>),
                     DescriptorFile("ok", <<"A">>)>>),
      Folder(TRUE, <<ImageFile(BandFileName(<<"0", "2">>), "ok", <<1, 1, 10001>>),
                     DescriptorFile("ok", <<"A", "B">>)>>),
      Folder(TRUE, <<ImageFile(BandFileName(<<"8", "A">>), "ok", <<2, 2, 40001>>),
                     DescriptorFile("bad", <<"B">>)>>),
      Folder(TRUE, <<ImageFile(BandFileName(<<"0", "1">>), "ok", Pixels0To19),
                     DescriptorFile("ok", << >>)>>),
      Folder(TRUE, <<ImageFile(BandFileName(<<"0", "1">>), "undecodable", << >>),
                     DescriptorFile("ok", <<"A">>)>>),
      Folder(TRUE, <<ImageFile(BandFileName(<<"0", "1">>), "notgray16", << >>),
                     DescriptorFile("ok", <<"A">>)>>),
      RasterFile(FALSE, NoEnv),
      RasterFile(TRUE, [openOk |-> TRUE, rasterCount |-> 2, failBand |-> 0,
                        copyFail |-> ""]) }

NoCapture == Folder(TRUE, << >>)
NoMetricStep == [name |-> EmptyString, kind |-> "none", capture |-> NoCapture]

Frequencies == 0..MaxFreq

\* the metrics command as processFolder is entered
InitMetric ==
    /\ command = "metric"
    /\ InitCommon
    /\ InitSplitFlags
    /\ last = NoMetricStep
    /\ outputFrequency \in Frequencies
    /\ metadataOnly \in BOOLEAN
    /\ firstOnly \in BOOLEAN
    /\ InitMetricTables

Tables ==
    [bandCounts |-> bandCounts, labelCounts |-> labelCounts,
     labelSingleCounts |-> labelSingleCounts, sizeCounts |-> sizeCounts,
     pixelValueCounts |-> pixelValueCounts]

\* fmt.Sprintf("%d X %d", img.SizeX, img.SizeY)
SizeString(img) == Itoa(img.SizeX) \o <<" ", "X", " ">> \o Itoa(img.SizeY)

\* for _, p := range img.Pixels { pixelValueCounts[p]++ }
RECURSIVE CountPixels(_, _, _)
CountPixels(counts, pixels, i) ==
    IF i > Len(pixels) THEN counts
    ELSE CountPixels(Inc(counts, pixels[i]), pixels, i + 1)

\* the loop over tile.Images
RECURSIVE CountImages(_, _, _)
CountImages(t, images, i) ==
    IF i > Len(images) THEN t
    ELSE CountImages(
            [t EXCEPT !.bandCounts = Inc(@, images[i].Band),
                      !.sizeCounts = Inc(@, SizeString(images[i])),
                      !.pixelValueCounts = CountPixels(@, images[i].Pixels, 1)],
            images, i + 1)

\* a faulty single-label test: any tile with a label counts as single-label
IsSingleLabelAny(labels) == Len(labels) >= 1

\* len(tile.Metadata.Labels) == 1
IsSingleLabel(labels) == Len(labels) = 1

\* the loop over tile.Metadata.Labels
RECURSIVE CountLabels(_, _, _)
CountLabels(t, labels, i) ==
    IF i > Len(labels) THEN t
    ELSE CountLabels(
            [t EXCEPT !.labelCounts = Inc(@, labels[i]),
                      !.labelSingleCounts =
                          IF IsSingleLabel(labels) THEN Inc(@, labels[i]) ELSE @],
            labels, i + 1)

\* a faulty report test: only the outputFrequency-th tile is reported
EmitDueOnce(n, frequency) == n = frequency

\* count%outputFrequency == 0, for a frequency that is not 0
EmitDue(n, frequency) == n % frequency = 0

\* the two outputMetrics calls on tables t, for every order the two ranges
\* over pixelValueCounts may take
ReportPairs(t) ==
    LET first == {OutputMetrics(UpperLimitLow, t.bandCounts, t.labelCounts,
                                t.labelSingleCounts, t.sizeCounts,
                                t.pixelValueCounts, o) :
                    o \in Orders(DOMAIN t.pixelValueCounts)}
        second == {OutputMetrics(UpperLimitHigh, t.bandCounts, t.labelCounts,
                                 t.labelSingleCounts, t.sizeCounts,
                                 t.pixelValueCounts, o) :
                    o \in Orders(DOMAIN t.pixelValueCounts)}
    IN  {<<lo, hi>> : lo \in first, hi \in second}

SetTables(t) ==
    /\ bandCounts' = t.bandCounts
    /\ labelCounts' = t.labelCounts
    /\ labelSingleCounts' = t.labelSingleCounts
    /\ sizeCounts' = t.sizeCounts
    /\ pixelValueCounts' = t.pixelValueCounts

\* processFolder, cmd/metric: ioutil.ReadDir(folder)
MetricReadDir ==
    /\ command = "metric"
    /\ pc = "start"
    /\ \E ok \in BOOLEAN :
        IF ok
        THEN pc' = "loop" /\ err' = NoError
        ELSE /\ pc' = "failed"
             /\ err' = Wrap(<<"ioutil.ReadDir">>, "unable to read contents of")
    /\ UNCHANGED <<idx, count, last, files, dirs, calls, splitVars, metricVars>>

\* processFolder, cmd/metric: one pass of the loop over captures.  In
\* metadata-only mode LoadMetadata's result is dropped and err keeps the
\* value it had; a nil tile.Metadata and a frequency of 0 panic.
MetricTile ==
    /\ command = "metric"
    /\ pc = "loop"
    /\ idx < MaxTiles
    /\ idx' = idx + 1
    /\ \E c \in Captures :
        LET name == IF c.isDir THEN <<"T">> \o Itoa(idx + 1)
                    ELSE TileFileName(idx + 1)
            tile == IF c.isDir THEN NewTile(source, name)
                    ELSE NewTileMultiBand(Join(source, name))
            ld == IF metadataOnly
                  THEN [LoadMetadata(tile, c) EXCEPT !.err = err]
                  ELSE LoadFiles(tile, c)
            t1 == CountImages(Tables, ld.tile.Images, 1)
            t2 == CountLabels(t1, Deref(ld.tile.Metadata).Labels, 1)
        IN  /\ last' = [name |-> name, kind |-> "tile", capture |-> c]
            /\ dirs' = dirs \cup ld.effects.dirs
            /\ calls' = ld.effects.calls
            /\ files' = WriteBands(files, Join(source, name), ld.effects.calls, 1)
            /\ IF ld.panic
               THEN /\ pc' = "panic"
                    /\ UNCHANGED <<err, count, bandCounts, labelCounts,
                                   labelSingleCounts, sizeCounts,
                                   pixelValueCounts, reports, history>>
               ELSE IF ld.err # NoError
               THEN /\ pc' = "failed"
                    /\ err' = ld.err
                    /\ UNCHANGED <<count, bandCounts, labelCounts,
                                   labelSingleCounts, sizeCounts,
                                   pixelValueCounts, reports, history>>
               ELSE IF ld.tile.Metadata = Nil
               THEN /\ pc' = "panic"
                    /\ SetTables(t1)
                    /\ UNCHANGED <<err, count, reports, history>>
               ELSE /\ SetTables(t2)
                    /\ count' = count + 1
                    /\ history' = Append(history, [tables |-> t2, capture |-> c])
                    /\ err' = err
                    /\ IF outputFrequency = 0
                       THEN pc' = "panic" /\ reports' = reports
                       ELSE IF EmitDue(count + 1, outputFrequency)
                       THEN \E pair \in ReportPairs(t2) :
                            /\ reports' = reports \o pair
                            /\ pc' = IF pair[1].panic \/ pair[2].panic
                                     THEN "panic" ELSE "loop"
                       ELSE pc' = "loop" /\ reports' = reports
    /\ UNCHANGED <<splitVars, outputFrequency, metadataOnly, firstOnly>>

\* processFolder, cmd/metric: the listing is exhausted, the final reports
MetricFinish ==
    /\ command = "metric"
    /\ pc = "loop"
    /\ \E pair \in ReportPairs(Tables) :
        /\ reports' = reports \o pair
        /\ pc' = IF pair[1].panic \/ pair[2].panic THEN "panic" ELSE "done"
    /\ UNCHANGED <<err, idx, count, last, files, dirs, calls, splitVars,
                   outputFrequency, metadataOnly, firstOnly, bandCounts,
                   labelCounts, labelSingleCounts, sizeCounts,
                   pixelValueCounts, history>>

NextMetric == MetricReadDir \/ MetricTile \/ MetricFinish

SpecMetric == InitMetric /\ [][NextMetric]_vars

(***************************************************************************)
(* cmd/metric: outputMetrics on its own, for any pixel-value table.        *)
(***************************************************************************)
MaxTableKeys == 3      \* most distinct pixel values in a table

\* the 16-bit pixel values and the counts of the tables of the model
PixelValues == {0, 19, 10001, 65535}
TableCounts == {1, 2}

\* the contents of pixelValueCounts: any pixel stream gives such a table
PixelTables ==
    UNION {[S -> TableCounts] :
            S \in {T \in SUBSET PixelValues : Cardinality(T) <= MaxTableKeys}}

\* outputMetrics is about to be called on some table
InitReport ==
    /\ command = "metric"
    /\ InitSplitFlags
    /\ pc = "report"
    /\ err = NoError
    /\ idx = 0
    /\ count = 0
    /\ files = EmptyMap
    /\ dirs = {}
    /\ calls = << >>
    /\ last = NoMetricStep
    /\ outputFrequency = 1
    /\ metadataOnly = FALSE
    /\ firstOnly = FALSE
    /\ bandCounts = EmptyMap
    /\ labelCounts = EmptyMap
    /\ labelSingleCounts = EmptyMap
    /\ sizeCounts = EmptyMap
    /\ pixelValueCounts \in PixelTables
    /\ reports = << >>
    /\ history = << >>

\* one call of outputMetrics, its ranges over the table in some order
Report ==
    /\ command = "metric"
    /\ pc = "report"
    /\ \E upperLimitPixel \in {UpperLimitLow, UpperLimitHigh},
          order \in Orders(DOMAIN pixelValueCounts) :
        LET r == OutputMetrics(upperLimitPixel, bandCounts, labelCounts,
                               labelSingleCounts, sizeCounts,
                               pixelValueCounts, order)
        IN  /\ reports' = <<r>>
            /\ last' = [name |-> EmptyString, kind |-> "report",
                        capture |-> NoCapture, order |-> order]
            /\ pc' = IF r.panic THEN "panic" ELSE "reported"
    /\ UNCHANGED <<err, idx, count, files, dirs, calls, splitVars,
                   outputFrequency, metadataOnly, firstOnly, bandCounts,
                   labelCounts, labelSingleCounts, sizeCounts,
                   pixelValueCounts, history>>

NextReport == Report
SpecReport == InitReport /\ [][NextReport]_vars

(***************************************************************************)
(* cmd/sample: copyCapture and processFolder.                              *)
(***************************************************************************)
MaxSampleTiles == 2    \* longest directory listing of the sample command

\* a faulty gate: a draw equal to the rate lets the tile through
SampleGateInclusive(draw, rate) == draw <= rate

\* rand.Float64() < sample
SampleGate(draw, rate) == draw < rate

\* labelRegex.ReplaceAllString(label, "_"); the labels of the model are one
\* character long
LabelRegexReplace(label) ==
    IF IsDigit(label) \/ IsUpper(label) \/ IsLower(label) THEN label ELSE "_"

\* What the environment does to one copyCapture call: whether its ReadDir
\* works, and which of its WriteFile calls fails (0 for none)
SampleEnvs == {[listOk |-> ok, failWrite |-> k] : ok \in BOOLEAN, k \in 0..2}
NoSampleEnv == [listOk |-> TRUE, failWrite |-> 0]

\* copyCapture's loop over labels for one file, from label j on
RECURSIVE CopyLabels(_, _, _, _, _, _, _)
CopyLabels(fullPath, fname, destinationRoot, labels, j, env, acc) ==
    IF j > Len(labels) \/ acc.err # NoError THEN acc
    ELSE LET labelCleaned == <<LabelRegexReplace(labels[j])>>
             destPath == Join(Join(destinationRoot, labelCleaned), fname)
             made == acc.dirs \cup {Join(destinationRoot, labelCleaned)}
         IN  IF acc.writes + 1 = env.failWrite
             THEN [err |-> Wrap(<<"ioutil.WriteFile">>, "unable to write to"),
                   files |-> acc.files, dirs |-> made,
                   writes |-> acc.writes + 1]
             ELSE CopyLabels(fullPath, fname, destinationRoot, labels, j + 1, env,
                    [err |-> NoError,
                     files |-> Put(acc.files, destPath,
                                   [src |-> fullPath, band |-> WholeFile]),
                     dirs |-> made,
                     writes |-> acc.writes + 1])

\* copyCapture's loop over the folder's files, from file i on
RECURSIVE CopyFiles(_, _, _, _, _, _, _)
CopyFiles(sourceFolder, destinationRoot, labels, fs, i, env, acc) ==
    IF i > Len(fs) \/ acc.err # NoError THEN acc
    ELSE LET fullPath == Join(sourceFolder, fs[i].name)
         IN  IF Ext(fs[i].name) = JsonExt
             THEN CopyFiles(sourceFolder, destinationRoot, labels, fs, i + 1,
                            env, acc)
             ELSE IF fs[i].load = "unreadable"
             THEN [acc EXCEPT !.err =
                        Wrap(<<"ioutil.ReadFile">>, "unable to read contents of")]
             ELSE CopyFiles(sourceFolder, destinationRoot, labels, fs, i + 1, env,
                            CopyLabels(fullPath, fs[i].name, destinationRoot,
                                       labels, 1, env, acc))

\* copyCapture: the error returned and the files and directories afterwards
CopyCapture(sourceFolder, destinationRoot, labels, c, env, fs, ds) ==
    IF ~env.listOk
    THEN [err |-> Wrap(<<"ioutil.ReadDir">>, "unable to read contents of"),
          files |-> fs, dirs |-> ds, writes |-> 0]
    ELSE CopyFiles(sourceFolder, destinationRoot, labels, c.files, 1, env,
                   [err |-> NoError, files |-> fs, dirs |-> ds, writes |-> 0])

NoSampleStep ==
    [name |-> EmptyString, kind |-> "none", capture |-> NoCapture, draw |-> 0,
     env |-> NoSampleEnv]

\* the sample command as processFolder is entered
InitSample ==
    /\ command = "sample"
    /\ InitCommon
    /\ last = NoSampleStep
    /\ sample \in SampleRates
    /\ firstOnly \in BOOLEAN
    /\ singleOnly \in BOOLEAN
    /\ split = FALSE
    /\ labelData = EmptyMap
    /\ bandMapping = EmptyMap
    /\ outputFrequency = 1
    /\ metadataOnly = FALSE
    /\ InitMetricTables

\* processFolder, cmd/sample: os.MkdirAll(destinationRoot), whose result is
\* not looked at, and ioutil.ReadDir(folder)
SampleReadDir ==
    /\ command = "sample"
    /\ pc = "start"
    /\ dirs' = dirs \cup {destination}
    /\ \E ok \in BOOLEAN :
        IF ok
        THEN pc' = "loop" /\ err' = NoError
        ELSE /\ pc' = "failed"
             /\ err' = Wrap(<<"ioutil.ReadDir">>, "unable to read contents of")
    /\ UNCHANGED <<idx, count, last, files, calls, splitVars, metricVars>>

\* processFolder, cmd/sample: one pass of the loop over captures.  A nil
\* tile.Metadata panics, and so does labels[0:1] of a tile without labels.
SampleTile ==
    /\ command = "sample"
    /\ pc = "loop"
    /\ idx < MaxSampleTiles
    /\ idx' = idx + 1
    /\ \E draw \in Draws, c \in Captures, env \in SampleEnvs :
        LET name == <<"T">> \o Itoa(idx + 1)
            tile == NewTile(source, name)
            ld == LoadMetadata(tile, c)
            labels == Deref(ld.tile.Metadata).Labels
            chosen == IF firstOnly THEN SubSeq(labels, 1, 1) ELSE labels
            cp == CopyCapture(Join(source, name), destination, chosen, c, env,
                              files, dirs)
        IN  IF ~SampleGate(draw, sample)
            THEN /\ last' = [name |-> name, kind |-> "skipped",
                             capture |-> NoCapture, draw |-> draw,
                             env |-> NoSampleEnv]
                 /\ UNCHANGED <<pc, err, count, files, dirs>>
            ELSE /\ last' = [name |-> name, kind |-> "sample", capture |-> c,
                             draw |-> draw, env |-> env]
                 /\ IF ld.err # NoError
                    THEN /\ pc' = "failed"
                         /\ err' = ld.err
                         /\ UNCHANGED <<count, files, dirs>>
                    ELSE IF ld.tile.Metadata = Nil
                    THEN /\ pc' = "panic"
                         /\ UNCHANGED <<err, count, files, dirs>>
                    ELSE IF singleOnly /\ Len(labels) # 1
                    THEN UNCHANGED <<pc, err, count, files, dirs>>
                    ELSE IF firstOnly /\ Len(labels) = 0
                    THEN /\ pc' = "panic"
                         /\ UNCHANGED <<err, count, files, dirs>>
                    ELSE /\ files' = cp.files
                         /\ dirs' = cp.dirs
                         /\ err' = cp.err
                         /\ IF cp.err # NoError
                            THEN pc' = "failed" /\ count' = count
                            ELSE pc' = "loop" /\ count' = count + 1
    /\ UNCHANGED <<calls, splitVars, metricVars>>

\* processFolder, cmd/sample: the listing is exhausted
SampleFinish ==
    /\ command = "sample"
    /\ pc = "loop"
    /\ pc' = "done"
    /\ UNCHANGED <<err, idx, count, last, files, dirs, calls, splitVars, metricVars>>

NextSample == SampleReadDir \/ SampleTile \/ SampleFinish

\* the two commands that take a sampling rate
InitSampling == InitSplit \/ InitSample
NextSampling == NextSplit \/ NextSample
SpecSampling == InitSampling /\ [][NextSampling]_vars

(***************************************************************************)
(* cmd/split: createBandMapping and main.                                  *)
(***************************************************************************)
\* position of the first occurrence of character c in s, 0 when absent
IndexOf(s, c) ==
    LET at == {i \in 1..Len(s) : s[i] = c}
    IN  IF at = {} THEN 0 ELSE CHOOSE i \in at : \A j \in at : i <= j

\* strings.Split(s, sep) for a separator of one character: an empty s gives
\* the one-element list [""], never the empty list
RECURSIVE Split(_, _)
Split(s, sep) ==
    IF IndexOf(s, sep) = 0 THEN <<s>>
    ELSE <<SubSeq(s, 1, IndexOf(s, sep) - 1)>>
         \o Split(SubSeq(s, IndexOf(s, sep) + 1, Len(s)), sep)

DigitValue(c) == (CHOOSE i \in 1..10 : Digits[i] = c) - 1

RECURSIVE DecimalValue(_)
DecimalValue(s) ==
    IF s = EmptyString THEN 0
    ELSE 10 * DecimalValue(SubSeq(s, 1, Len(s) - 1)) + DigitValue(s[Len(s)])

\* strconv.Atoi: an optional sign and one or more decimal digits (the
\* strings of the model are too short to leave the range of int)
Atoi(s) ==
    LET signed == s # EmptyString /\ s[1] \in {"+", "-"}
        digits == IF signed THEN SubSeq(s, 2, Len(s)) ELSE s
        ok == digits # EmptyString /\ \A i \in 1..Len(digits) : IsDigit(digits[i])
    IN  [ok |-> ok,
         value |-> IF ~ok THEN 0
                   ELSE IF signed /\ s[1] = "-" THEN 0 - DecimalValue(digits)
                   ELSE DecimalValue(digits)]

\* createBandMapping's first loop, from the i-th element of mappingsRaw on:
\* mapping[1] of an element without a colon is out of range and panics
RECURSIVE ParseMappings(_, _, _)
ParseMappings(mappingsRaw, i, acc) ==
    IF i > Len(mappingsRaw) THEN acc
    ELSE LET mapping == Split(mappingsRaw[i], ":")
             old == Atoi(mapping[1])
         IN  IF ~old.ok
             THEN [acc EXCEPT !.err =
                    Wrap(<<"strconv.Atoi">>,
                         "unable to parse source band integer for mapping")]
             ELSE IF Len(mapping) < 2
             THEN [acc EXCEPT !.panic = TRUE]
             ELSE ParseMappings(mappingsRaw, i + 1,
                    [acc EXCEPT !.mapping = Put(@, old.value, mapping[2])])

\* createBandMapping's second loop, from the i-th element of the drop list on
RECURSIVE ParseDrops(_, _, _)
ParseDrops(drops, i, acc) ==
    IF i > Len(drops) THEN acc
    ELSE LET parsed == Atoi(drops[i])
         IN  IF ~parsed.ok
             THEN [acc EXCEPT !.err =
                    Wrap(<<"strconv.Atoi">>,
                         "unable to parse source band integer to drop")]
             ELSE ParseDrops(drops, i + 1,
                    [acc EXCEPT !.mapping = Put(@, parsed.value, EmptyString)])

\* createBandMapping: the mapping, the error, or the panic
CreateBandMapping(bandsToDrop, bandMappingRaw) ==
    LET m == ParseMappings(Split(bandMappingRaw, ","), 1,
                [mapping |-> EmptyMap, err |-> NoError, panic |-> FALSE])
    IN  IF m.panic \/ m.err # NoError THEN m
        ELSE ParseDrops(Split(bandsToDrop, ","), 1, m)

\* the values of --drop-bands in the model:
\*   "", "2", "1,3", "02", "x", "2,"
DropLists ==
    { EmptyString, <<"2">>, <<"1", ",", "3">>, <<"0", "2">>, <<"x">>, <<"2", ",">> }

\* the values of --band-mapping in the model:
\*   "", "1:x", "1:02,3:x", "2:", "a:x", "1:x,:x", "1"
MappingLists ==
    { EmptyString, <<"1", ":", "x">>, <<"1", ":", "0", "2", ",", "3", ":", "x">>, <<"2", ":">>, <<"a", ":", "x">>, <<"1", ":", "x", ",", ":", "x">>, <<"1">> }

NoMainStep ==
    [name |-> EmptyString, kind |-> "none", env |-> NoEnv,
     labelsOk |-> TRUE, bandsToDrop |-> EmptyString,
     bandMappingRaw |-> EmptyString]

\* the split command as main's action is entered
InitSplitMain ==
    /\ command = "split"
    /\ singleOnly = FALSE
    /\ pc = "main"
    /\ err = NoError
    /\ idx = 0
    /\ count = 0
    /\ files = EmptyMap
    /\ dirs = {}
    /\ calls = << >>
    /\ last = NoMainStep
    /\ sample \in SampleRates
    /\ split \in BOOLEAN
    /\ labelData = EmptyMap
    /\ bandMapping = EmptyMap
    /\ outputFrequency = 1
    /\ metadataOnly = FALSE
    /\ firstOnly = FALSE
    /\ InitMetricTables

\* main, cmd/split: loadLabels, then createBandMapping, then processFolder
\* is entered; an error of either ends the run
SplitMain ==
    /\ command = "split"
    /\ pc = "main"
    /\ \E labelsOk \in BOOLEAN, labels \in LabelDatas,
          bandsToDrop \in DropLists, bandMappingRaw \in MappingLists :
        LET r == CreateBandMapping(bandsToDrop, bandMappingRaw)
        IN  /\ last' = [name |-> EmptyString, kind |-> "main", env |-> NoEnv,
                        labelsOk |-> labelsOk, bandsToDrop |-> bandsToDrop,
                        bandMappingRaw |-> bandMappingRaw]
            /\ IF ~labelsOk
               THEN /\ pc' = "failed"
                    /\ err' = Wrap(<<"os.Open">>, "failed to open data file")
                    /\ UNCHANGED <<labelData, bandMapping>>
               ELSE IF r.panic
               THEN /\ pc' = "panic"
                    /\ labelData' = labels
                    /\ UNCHANGED <<err, bandMapping>>
               ELSE IF r.err # NoError
               THEN /\ pc' = "failed"
                    /\ err' = r.err
                    /\ labelData' = labels
                    /\ UNCHANGED bandMapping
               ELSE /\ pc' = "start"
                    /\ err' = NoError
                    /\ labelData' = labels
                    /\ bandMapping' = r.mapping
    /\ UNCHANGED <<command, sample, split, singleOnly, idx, count, files,
                   dirs, calls, metricVars>>

NextSplitMain == SplitMain \/ NextSplit
SpecSplitMain == InitSplitMain /\ [][NextSplitMain]_vars

(***************************************************************************)
(* Claims about the band splitter (checked under SpecSplit).               *)
(***************************************************************************)
\* the latest step ran SplitMultiBand
SplitRan == last.kind = "split"
\* ... and it returned nil
SplitReturnedNil == SplitRan /\ err = NoError

\* the claims' own reading of the names: two decimal digits of a band index
ClaimTwoDigits(b) == <<Digits[(b \div 10) + 1], Digits[(b % 10) + 1]>>
\* the tile name without its extension: the listing's idx-th entry is T<idx>
ClaimTileBase == <<"T">> \o Itoa(idx)
ClaimDropped(b) == b \in DOMAIN bandMapping /\ bandMapping[b] = EmptyString
ClaimRetained == {b \in 1..last.env.rasterCount : ~ClaimDropped(b)}
ClaimLabel == Lookup(labelData, last.name)
ClaimSubfolder ==
    destination \o <<"/">> \o
        (IF ClaimLabel # EmptyString THEN ClaimLabel ELSE ClaimTileBase)
ClaimFileName(tag) == ClaimTileBase \o <<"_", "B">> \o tag \o TiffExt
ClaimPath(b) ==
    ClaimSubfolder \o <<"/">> \o
        ClaimFileName(IF b \in DOMAIN bandMapping THEN bandMapping[b]
                      ELSE ClaimTwoDigits(b))
\* the files the latest SplitMultiBand produced
Produced == {calls[i].dst : i \in {j \in 1..Len(calls) : calls[j].ok}}
AllExtracted == \A i \in 1..Len(calls) : calls[i].ok

\* C1 as stated: with band k dropped, SplitMultiBand produces no file whose
\* name contains _B<k> (two digits) and no file with the empty tag, whatever
\* the other entries of the mapping are.
C1_NoFileNamedAfterDroppedBand ==
    SplitRan =>
        \A k \in 1..MaxBands :
            ClaimDropped(k) =>
                \A f \in Produced :
                    /\ ~Contains(Base(f), <<"_", "B">> \o ClaimTwoDigits(k))
                    /\ Base(f) # ClaimFileName(EmptyString)

\* C1 as amended: with band k dropped, SplitMultiBand extracts nothing from
\* band k and asks for no file with the empty tag; a file named
\* <tile-base>_B<k>.tiff is asked for only for another band, one the mapping
\* renames to <k>.
C1_DroppedBandNotExtracted ==
    SplitRan =>
        \A k \in 1..MaxBands :
            ClaimDropped(k) =>
                \A i \in 1..Len(calls) :
                    /\ calls[i].band # k
                    /\ Base(calls[i].dst) # ClaimFileName(EmptyString)
                    /\ Base(calls[i].dst) = ClaimFileName(ClaimTwoDigits(k))
                        => /\ calls[i].band \in DOMAIN bandMapping
                           /\ bandMapping[calls[i].band] = ClaimTwoDigits(k)

\* C1's case: a raster with a dropped band inside it was split, other bands
\* were written, and one of them took the dropped band's index as its tag
C1_Witness ==
    /\ SplitReturnedNil
    /\ last.env.rasterCount = MaxBands
    /\ ClaimDropped(2)
    /\ ClaimPath(3) \in Produced
    /\ Base(ClaimPath(3)) = ClaimFileName(ClaimTwoDigits(2))

\* C2 as stated: whatever the mapping, when every extraction GDAL was asked
\* for worked, the files produced for the tile are as many as the retained
\* bands and the names asked for are pairwise distinct.
C2_OneFilePerRetainedBand ==
    (SplitReturnedNil /\ AllExtracted) =>
        /\ Cardinality(Produced) = Cardinality(ClaimRetained)
        /\ \A i, j \in 1..Len(calls) :
                calls[i].dst = calls[j].dst => i = j

\* C3: SplitMultiBand asks GDAL for exactly the retained bands, in ascending
\* order, band b into <subfolder>/<tile-base>_B<tag>.tiff; nothing else is
\* produced; and the 3-band T1.tiff with mapping {2: ""} and no label yields
\* destination/T1/T1_B01.tiff and destination/T1/T1_B03.tiff.
C3_T1B01 ==
    <<"d", "e", "s", "t", "i", "n", "a", "t", "i", "o", "n", "/", "T", "1", "/",
      "T", "1", "_", "B", "0", "1", ".", "t", "i", "f", "f">>
C3_T1B03 ==
    <<"d", "e", "s", "t", "i", "n", "a", "t", "i", "o", "n", "/", "T", "1", "/",
      "T", "1", "_", "B", "0", "3", ".", "t", "i", "f", "f">>
C3_ExampleCase ==
    /\ SplitReturnedNil
    /\ idx = 1
    /\ last.env.rasterCount = 3
    /\ bandMapping = (2 :> EmptyString)
    /\ ClaimLabel = EmptyString

C3_SplitPaths ==
    SplitReturnedNil =>
        /\ {calls[i].band : i \in 1..Len(calls)} = ClaimRetained
        /\ \A i \in 1..Len(calls) :
            /\ calls[i].dst = ClaimPath(calls[i].band)
            /\ i > 1 => calls[i - 1].band < calls[i].band
            /\ calls[i].ok =>
                /\ calls[i].dst \in DOMAIN files
                /\ files[calls[i].dst].src = Join(source, last.name)
        /\ ClaimSubfolder \in dirs
        /\ C3_ExampleCase =>
            /\ [i \in 1..Len(calls) |-> calls[i].dst] = <<C3_T1B01, C3_T1B03>>
            /\ DOMAIN files \subseteq {C3_T1B01, C3_T1B03}
            /\ AllExtracted => DOMAIN files = {C3_T1B01, C3_T1B03}

\* C3's case: the example raster was split and both files are there
C3_Witness ==
    /\ C3_ExampleCase
    /\ DOMAIN files = {C3_T1B01, C3_T1B03}
    /\ files[C3_T1B03].band = 3

\* C6 as stated: when the raster cannot be opened or a band cannot be
\* extracted, SplitMultiBand returns an error, no later band of the tile is
\* extracted and processFolder stops with that error.
C6_ExtractFailureIsFatal ==
    (SplitRan /\ (~last.env.openOk \/ ~AllExtracted)) =>
        /\ err # NoError
        /\ pc = "failed"
        /\ \A i \in 1..Len(calls) : ~calls[i].ok => i = Len(calls)

(***************************************************************************)
(* Claims about the metrics command (checked under SpecMetric).            *)
(***************************************************************************)
LabelNames == {"A", "B"}
Occurrences(q, x) == Cardinality({i \in 1..Len(q) : q[i] = x})
IsDescriptor(f) == HasSuffix(f.name, JsonExt)
IsImage(f) == ~IsDescriptor(f)
FilesOf(c) == {c.files[i] : i \in 1..Len(c.files)}
\* the labels a capture's descriptor gives the tile
ClaimLabels(c) ==
    IF \E f \in FilesOf(c) : IsDescriptor(f) /\ f.load = "ok"
    THEN (CHOOSE f \in FilesOf(c) : IsDescriptor(f) /\ f.load = "ok").labels
    ELSE << >>
\* the tile handled by the latest step
LastCapture == last.capture
TileStepped == last.kind = "tile"

EmptyTables ==
    [bandCounts |-> EmptyMap, labelCounts |-> EmptyMap,
     labelSingleCounts |-> EmptyMap, sizeCounts |-> EmptyMap,
     pixelValueCounts |-> EmptyMap]
\* the tables after the first n counted tiles
TablesAfter(n) == IF n = 0 THEN EmptyTables ELSE history[n].tables

\* the pixels of the images of the first n counted tiles
RECURSIVE ClaimFilePixels(_, _)
ClaimFilePixels(fs, i) ==
    IF i > Len(fs) THEN << >>
    ELSE (IF IsImage(fs[i]) THEN fs[i].values ELSE << >>)
         \o ClaimFilePixels(fs, i + 1)
RECURSIVE ClaimSeen(_)
ClaimSeen(n) ==
    IF n = 0 \/ metadataOnly THEN << >>
    ELSE ClaimSeen(n - 1) \o ClaimFilePixels(history[n].capture.files, 1)

\* the tile counts at which a report pair is due: every outputFrequency-th
\* counted tile, and the end of the run
ClaimEmitPoints ==
    (IF outputFrequency = 0 THEN << >>
     ELSE [i \in 1..(count \div outputFrequency) |-> i * outputFrequency])
    \o (IF pc = "done" THEN <<count>> ELSE << >>)
\* the number of counted tiles behind the i-th report
ReportTiles(i) == ClaimEmitPoints[(i + 1) \div 2]

\* C4: a counted tile adds 1 to the all-labels count of each of its labels,
\* and 1 to the single-label count of its label exactly when it has one
\* label; with labels [A,B] the single-label table does not change.
C4_LabelTables ==
    [][(pc = "loop" /\ count' = count + 1) =>
        LET labels == ClaimLabels(last'.capture)
        IN  \A l \in LabelNames \cup DOMAIN labelCounts' \cup DOMAIN labelSingleCounts' :
              /\ Get(labelCounts', l) - Get(labelCounts, l) = Occurrences(labels, l)
              /\ Get(labelSingleCounts', l) - Get(labelSingleCounts, l)
                    = (IF labels = <<l>> THEN 1 ELSE 0)]_vars

\* C4's case: a tile labelled [A,B] and then a tile labelled [A] were counted
C4_Witness ==
    /\ count = 2
    /\ ClaimLabels(history[1].capture) = <<"A", "B">>
    /\ ClaimLabels(history[2].capture) = <<"A">>
    /\ history[1].tables.labelSingleCounts = EmptyMap
    /\ labelCounts = ("A" :> 2 @@ "B" :> 1)
    /\ labelSingleCounts = ("A" :> 1)

\* C5 as stated: when loading a tile fails (its folder or raster file cannot
\* be read, or, where images are loaded, an image cannot be read or decoded),
\* processFolder returns the wrapped error and the tile changes no table.
ClaimLoadFails(c) ==
    \/ ~c.readable
    \/ /\ ~metadataOnly
       /\ c.isDir
       /\ \E f \in FilesOf(c) : IsImage(f) /\ f.load \in {"unreadable", "undecodable"}
C5_LoadFailureIsFatal ==
    (TileStepped /\ ClaimLoadFails(LastCapture)) =>
        /\ pc = "failed"
        /\ Len(err) >= 2
        /\ Tables = TablesAfter(count)

\* C7 as stated, for the metrics loop: a readable tile folder without a
\* descriptor is loaded without error and the loop goes on, the tile counted
\* with no labels.
ClaimNoDescriptor(c) ==
    c.isDir /\ c.readable /\ ~\E f \in FilesOf(c) : IsDescriptor(f)
C7_NoDescriptorMeansNoLabels ==
    (TileStepped /\ metadataOnly /\ outputFrequency >= 1
        /\ ClaimNoDescriptor(LastCapture)) =>
        /\ pc = "loop"
        /\ err = NoError
        /\ count >= 1
        /\ history[count].capture = LastCapture
        /\ labelCounts = TablesAfter(count - 1).labelCounts

\* C8: for a frequency F >= 1 the reports printed so far are one pair (limit
\* 10000, then 40000) after each of the tiles F, 2F, ... and, once the run has
\* ended normally, one more pair; each pair shows the tables as they were
\* after exactly the tiles counted by then.
C8_ReportSchedule ==
    outputFrequency >= 1 =>
        /\ Len(reports) = 2 * Len(ClaimEmitPoints)
        /\ \A i \in 1..Len(reports) :
            LET r == reports[i]
                t == TablesAfter(ReportTiles(i))
            IN  /\ r.upperLimitPixel =
                        (IF i % 2 = 1 THEN UpperLimitLow ELSE UpperLimitHigh)
                /\ r.labels = t.labelCounts
                /\ r.labelsSingle = t.labelSingleCounts
                /\ r.bands = t.bandCounts
                /\ r.sizes = t.sizeCounts
                /\ r.totalPixelCount = Len(ClaimSeen(ReportTiles(i)))

\* C8's case: frequency 2 and three tiles: a pair after the second tile and
\* the final pair after the third, which differ
C8_Witness ==
    /\ outputFrequency = 2
    /\ count = 3
    /\ pc = "done"
    /\ Len(reports) = 4
    /\ reports[1].labels = history[2].tables.labelCounts
    /\ reports[3].labels = history[3].tables.labelCounts
    /\ reports[1].labels # reports[3].labels

ClaimMin(a, b) == IF a < b THEN a ELSE b
RECURSIVE BucketSum(_, _)
BucketSum(pixelCounts, S) ==
    IF S = {} THEN 0
    ELSE LET v == CHOOSE x \in S : TRUE
         IN  pixelCounts[v] + BucketSum(pixelCounts, S \ {v})

\* C9: in every report, each pixel seen so far is counted once, in bucket
\* min(value, L): the buckets add up to the reported total, which is the
\* number of pixels of the images processed so far, and no bucket above L
\* is non-zero.
C9_Histogram ==
    \A i \in 1..Len(reports) :
        LET r == reports[i]
            L == r.upperLimitPixel
            seen == ClaimSeen(ReportTiles(i))
            hit == {ClaimMin(seen[k], L) : k \in 1..Len(seen)}
        IN  /\ ~r.panic
            /\ r.totalPixelCount = Len(seen)
            /\ BucketSum(r.pixelCounts, DOMAIN r.pixelCounts) = r.totalPixelCount
            /\ \A v \in hit \cup DOMAIN r.pixelCounts :
                /\ v <= L
                /\ v < r.length
                /\ Get(r.pixelCounts, v) =
                     Cardinality({k \in 1..Len(seen) : ClaimMin(seen[k], L) = v})

\* C9's case: pixels above both limits and between them were seen and
\* reported: 10001 and 40001 fold into bucket 10000 of the first report, and
\* only 40001 is clipped in the second
C9_Witness ==
    /\ Len(reports) >= 2
    /\ LET lo == reports[Len(reports) - 1]
           hi == reports[Len(reports)]
       IN  /\ lo.upperLimitPixel = UpperLimitLow
           /\ hi.upperLimitPixel = UpperLimitHigh
           /\ {10001, 40001} \subseteq DOMAIN pixelValueCounts
           /\ Get(lo.pixelCounts, 10000) = 2
           /\ Get(hi.pixelCounts, 10001) = 1
           /\ Get(hi.pixelCounts, 40000) = 1
           /\ lo.totalPixelCount = 6

\* twice the remainder after bucket v: the total less twice the buckets 0..v
ClaimRemaining2(r, v) ==
    r.totalPixelCount
        - 2 * BucketSum(r.pixelCounts, {u \in DOMAIN r.pixelCounts : u <= v})

\* C10: the reported median is the first value v, in ascending order, at
\* which the remainder (half the total less the buckets up to v) is <= 0,
\* or v + 0.5 when that remainder is strictly between 0 and 1; no earlier
\* bucket meets either test; and the values 0..19, each once, give 9.
C10_Median ==
    \A i \in 1..Len(reports) :
        LET r == reports[i]
            m == r.medianValue2
            v == m \div 2
        IN  /\ m >= 0
            /\ m % 2 = 0 => ClaimRemaining2(r, v) <= 0
            /\ m % 2 = 1 => ClaimRemaining2(r, v) = 1
            /\ \A u \in ({0, v - 1} \cup DOMAIN r.pixelCounts) \cap (0..(v - 1)) :
                    ClaimRemaining2(r, u) >= 2
            /\ r.pixelCounts = [u \in 0..19 |-> 1] => m = 18

\* C10's case: the values 0..19 each once were reported with median 9, and
\* a later report has a median of a value and a half
C10_Witness ==
    /\ Len(reports) >= 4
    /\ reports[1].pixelCounts = [u \in 0..19 |-> 1]
    /\ reports[1].medianValue2 = 18
    /\ reports[3].medianValue2 % 2 = 1
    /\ reports[3].medianValue2 > 1

(***************************************************************************)
(* Claims about the sampling gate (checked under SpecSampling).            *)
(***************************************************************************)
\* the latest pass of a loop let its tile through the gate
ClaimPassed(step) == step.kind \in {"split", "copy", "sample"}

MainRan == last.kind = "main" /\ last.labelsOk

\* the claims' own reading of the two lists: an empty list has no element
ClaimElements(list) == IF list = EmptyString THEN << >> ELSE Split(list, ",")
ClaimPairs == ClaimElements(last.bandMappingRaw)
ClaimDrops == ClaimElements(last.bandsToDrop)
\* every element of the pair list is a pair
ClaimPairsWellFormed ==
    \A i \in 1..Len(ClaimPairs) : IndexOf(ClaimPairs[i], ":") > 0
ClaimOld(pair) == SubSeq(pair, 1, IndexOf(pair, ":") - 1)
ClaimNew(pair) == SubSeq(pair, IndexOf(pair, ":") + 1, Len(pair))
\* an integer token: one or more decimal digits
ClaimIsInteger(token) ==
    token # EmptyString /\ \A i \in 1..Len(token) : IsDigit(token[i])
ClaimParseFails ==
    \/ \E i \in 1..Len(ClaimPairs) : ~ClaimIsInteger(ClaimOld(ClaimPairs[i]))
    \/ \E i \in 1..Len(ClaimDrops) : ~ClaimIsInteger(ClaimDrops[i])
ClaimDropSet == {DecimalValue(ClaimDrops[i]) : i \in 1..Len(ClaimDrops)}
ClaimPairSet == {DecimalValue(ClaimOld(ClaimPairs[i])) : i \in 1..Len(ClaimPairs)}
\* the mapping asked for: "" for a dropped index, the new label otherwise
ClaimMappingIs(m) ==
    /\ DOMAIN m = ClaimDropSet \cup ClaimPairSet
    /\ \A d \in ClaimDropSet : m[d] = EmptyString
    /\ \A i \in 1..Len(ClaimPairs) :
         LET old == DecimalValue(ClaimOld(ClaimPairs[i]))
         IN  old \notin ClaimDropSet => m[old] = ClaimNew(ClaimPairs[i])
\* what C12 asks of main's step on the lists it was given
ClaimMainOutcome ==
    IF ClaimParseFails
    THEN /\ pc = "failed"
         /\ Len(err) >= 2
         /\ idx = 0
         /\ files = EmptyMap
         /\ calls = << >>
    ELSE /\ pc = "start"
         /\ err = NoError
         /\ ClaimMappingIs(bandMapping)

\* C12 as stated: for a list of pairs and a list of indices to drop, either
\* of them possibly empty, createBandMapping fails exactly when an integer
\* token does not parse, and then no tile is processed; otherwise it returns
\* the mapping of every pair and of every dropped index.
C12_BandMappingParsed ==
    [][(pc = "main" /\ MainRan' /\ ClaimPairsWellFormed') =>
            ClaimMainOutcome']_vars

\* The same with neither list empty: this much of C12 holds.
C12_NonEmptyLists ==
    [][(pc = "main" /\ MainRan' /\ ClaimPairsWellFormed'
            /\ last'.bandMappingRaw # EmptyString
            /\ last'.bandsToDrop # EmptyString) =>
            ClaimMainOutcome']_vars

\* the case of C12_NonEmptyLists: "1:02,3:x" with "2" gave {1: 02, 2: "", 3: x}
C12_NonEmptyWitness ==
    /\ MainRan
    /\ pc = "start"
    /\ bandMapping = (1 :> Tag02 @@ 2 :> EmptyString @@ 3 :> TagX)

(***************************************************************************)
(* Further claims about the metrics tables (checked under SpecMetric).     *)
(***************************************************************************)
\* C13 as stated: with --first-only, a counted tile changes the label
\* tables for its first label only: that label's all-labels count grows by
\* one and no other label's count changes in either table.
C13_FirstLabelOnly ==
    [][(firstOnly /\ pc = "loop" /\ count' = count + 1) =>
        LET labels == ClaimLabels(last'.capture)
        IN  \A l \in LabelNames \cup DOMAIN labelCounts' \cup DOMAIN labelSingleCounts' :
              IF labels # << >> /\ l = labels[1]
              THEN Get(labelCounts', l) = Get(labelCounts, l) + 1
              ELSE /\ Get(labelCounts', l) = Get(labelCounts, l)
                   /\ Get(labelSingleCounts', l) = Get(labelSingleCounts, l)]_vars

(***************************************************************************)
(* Claims about outputMetrics on any table (checked under SpecReport).     *)
(***************************************************************************)
\* outputMetrics has run on pixelValueCounts and printed reports[1]
Reported == last.kind = "report"
ClaimKeys == DOMAIN pixelValueCounts
\* the clipped histogram of the table for limit L: the count of bucket v
ClaimBucket(L, v) ==
    BucketSum(pixelValueCounts, {k \in ClaimKeys : ClaimMin(k, L) = v})
ClaimBucketValues(L) == {ClaimMin(k, L) : k \in ClaimKeys}
\* the mode a run prints when its range visits the keys in order o
ClaimModeOfRun(L, o) ==
    Accumulate(L, pixelValueCounts, o, 65536, 1,
               [pixelCounts |-> EmptyMap, totalPixelCount |-> 0,
                totalPixelValue |-> 0, mostCommonPixelCount |-> 0,
                mostCommonPixelValue |-> 0, panic |-> FALSE]).mostCommonPixelValue

\* C14 as stated: for a table that is not empty, the reported most common
\* pixel value is a bucket of the clipped histogram with the largest count,
\* the reported most common pixel count is that bucket's count, and every
\* run on the same table reports the same value.
C14_Mode ==
    (Reported /\ ClaimKeys # {}) =>
        LET r == reports[1]
            L == r.upperLimitPixel
        IN  /\ r.mostCommonPixelValue \in ClaimBucketValues(L)
            /\ \A v \in ClaimBucketValues(L) :
                    ClaimBucket(L, v) <= ClaimBucket(L, r.mostCommonPixelValue)
            /\ r.mostCommonPixelCount = ClaimBucket(L, r.mostCommonPixelValue)
            /\ \A o \in Orders(ClaimKeys) :
                    ClaimModeOfRun(L, o) = r.mostCommonPixelValue

\* the first half of C14 alone, the largest bucket and its count
C14_LargestBucket ==
    (Reported /\ ClaimKeys # {}) =>
        LET r == reports[1]
            L == r.upperLimitPixel
        IN  /\ r.mostCommonPixelValue \in ClaimBucketValues(L)
            /\ \A v \in ClaimBucketValues(L) :
                    ClaimBucket(L, v) <= ClaimBucket(L, r.mostCommonPixelValue)
            /\ r.mostCommonPixelCount = ClaimBucket(L, r.mostCommonPixelValue)

\* the second half of C14 alone, the same mode on every run
C14_SameOnEveryRun ==
    (Reported /\ ClaimKeys # {}) =>
        \A o \in Orders(ClaimKeys) :
            ClaimModeOfRun(reports[1].upperLimitPixel, o)
                = reports[1].mostCommonPixelValue

\* C15 as stated: for a table that is not empty, the reported min and max
\* are the smallest and the largest key of the table, unclipped.
C15_MinMaxRaw ==
    (Reported /\ ClaimKeys # {}) =>
        /\ reports[1].minPV \in ClaimKeys
        /\ \A k \in ClaimKeys : reports[1].minPV <= k
        /\ reports[1].maxPV \in ClaimKeys
        /\ \A k \in ClaimKeys : k <= reports[1].maxPV

\* what of C15 holds: the min is the smallest key, and the max is the
\* largest key clipped to the report's upper limit
C15_MinRawMaxClipped ==
    (Reported /\ ClaimKeys # {}) =>
        /\ reports[1].minPV \in ClaimKeys
        /\ \A k \in ClaimKeys : reports[1].minPV <= k
        /\ \E k \in ClaimKeys :
            /\ \A j \in ClaimKeys : j <= k
            /\ reports[1].maxPV = ClaimMin(k, reports[1].upperLimitPixel)

\* C16: whatever the table (empty, or holding 65535) and for both limits,
\* outputMetrics indexes and slices the bucket array within its length: the
\* 16-bit length is ((maxPV+1)/20 + 1) * 20 without wrapping, for maxPV the
\* largest key clipped to the limit (0 for the empty table); it is a positive
\* multiple of 20; and every clipped key is below it.
C16_BucketArrayBounds ==
    Reported =>
        LET r == reports[1]
            L == r.upperLimitPixel
            top == IF ClaimKeys = {} THEN 0
                   ELSE ClaimMin(CHOOSE k \in ClaimKeys : \A j \in ClaimKeys : j <= k, L)
        IN  /\ ~r.panic
            /\ pc = "reported"
            /\ r.length = (((top + 1) \div 20) + 1) * 20
            /\ r.length < 65536
            /\ r.length > 0
            /\ r.length % RowWidth = 0
            /\ \A k \in ClaimKeys : ClaimMin(k, L) < r.length

\* C16's case: a table holding 65535 was reported under the limit 40000,
\* with 40020 buckets and the clipped value counted in bucket 40000
C16_Witness ==
    /\ Reported
    /\ 65535 \in ClaimKeys
    /\ reports[1].upperLimitPixel = UpperLimitHigh
    /\ reports[1].length = 40020
    /\ Get(reports[1].pixelCounts, 40000) = pixelValueCounts[65535]

====
